---- MODULE Spec2Model ----
(***************************************************************************)
(* A model of the two portal clients of this repository:                   *)
(*   testtext/__init__.py   class TestText                                 *)
(*   touchstone/tests.py    class TouchstoneTests                          *)
(* One wrapper instance is driven either through a `with` block or by      *)
(* direct method calls.  Python strings are sequences of one-character     *)
(* strings, so that replace/strip/split/in are computed, not assumed.      *)
(***************************************************************************)
EXTENDS Integers, Sequences, FiniteSets, TLC

(* ------------------------------------------------------------------ *)
(* Python str operations                                               *)
(* ------------------------------------------------------------------ *)

\* s[i:i+len(p)] == p
MatchAt(s, p, i) ==
    /\ i >= 1
    /\ i + Len(p) - 1 <= Len(s)
    /\ SubSeq(s, i, i + Len(p) - 1) = p

\* p in s
Contains(s, p) == \E i \in 1..(Len(s) + 1) : MatchAt(s, p, i)

\* s.startswith(p)
StartsWith(s, p) == MatchAt(s, p, 1)

\* s.endswith(p)
EndsWith(s, p) == MatchAt(s, p, Len(s) - Len(p) + 1)

\* s.replace(old, ''), old non-empty: leftmost non-overlapping occurrences
RECURSIVE Remove(_, _)
Remove(s, old) ==
    IF s = <<>> THEN <<>>
    ELSE IF MatchAt(s, old, 1)
         THEN Remove(SubSeq(s, Len(old) + 1, Len(s)), old)
         ELSE <<Head(s)>> \o Remove(Tail(s), old)

RECURSIVE LStrip(_, _)
LStrip(s, c) == IF s # <<>> /\ Head(s) = c THEN LStrip(Tail(s), c) ELSE s

RECURSIVE RStrip(_, _)
RStrip(s, c) ==
    IF s # <<>> /\ s[Len(s)] = c THEN RStrip(SubSeq(s, 1, Len(s) - 1), c) ELSE s

\* s.strip(c) for a single character c
Strip(s, c) == RStrip(LStrip(s, c), c)

\* s.split(sep)[-1] and s.rpartition(sep)[-1]: what follows the last sep,
\* the whole of s when sep does not occur
AfterLast(s, sep) ==
    LET at == {i \in 1..Len(s) : MatchAt(s, sep, i)} IN
    IF at = {} THEN s
    ELSE LET i == CHOOSE j \in at : \A k \in at : k <= j IN
         SubSeq(s, i + Len(sep), Len(s))

\* sep.join([a, b])
Join(sep, a, b) == a \o sep \o b

UpperAlphabet ==
    <<"A","B","C","D","E","F","G","H","I","J","K","L","M",
      "N","O","P","Q","R","S","T","U","V","W","X","Y","Z">>

LowerAlphabet ==
    <<"a","b","c","d","e","f","g","h","i","j","k","l","m",
      "n","o","p","q","r","s","t","u","v","w","x","y","z">>

LowerChar(c) ==
    IF \E i \in 1..26 : UpperAlphabet[i] = c
    THEN LowerAlphabet[CHOOSE i \in 1..26 : UpperAlphabet[i] = c]
    ELSE c

UpperChar(c) ==
    IF \E i \in 1..26 : LowerAlphabet[i] = c
    THEN UpperAlphabet[CHOOSE i \in 1..26 : LowerAlphabet[i] = c]
    ELSE c

\* s.lower(), s.upper()
Lower(s) == [i \in 1..Len(s) |-> LowerChar(s[i])]
Upper(s) == [i \in 1..Len(s) |-> UpperChar(s[i])]

\* Python's None, distinct from every str
None == <<"None">>

\* f'{x}'
Format(x) == IF x = None THEN <<"N","o","n","e">> ELSE x

\* {**a, **b}
Merge(a, b) ==
    [k \in (DOMAIN a) \cup (DOMAIN b) |-> IF k \in DOMAIN b THEN b[k] ELSE a[k]]

(* ------------------------------------------------------------------ *)
(* Class attributes and defaults                                       *)
(* ------------------------------------------------------------------ *)

url == <<"h","t","t","p","s",":","/","/","t","e","s","t","t","e","x","t",".","c","o","m">>
start_uri == <<"/","l","o","g","i","n">>
login_uri == <<"/","l","o","g","i","n">>
email_upload_uri == <<"/","u","p","l","o","a","d">>
sms_upload_uri == <<"/","u","p","l","o","a","d","s","m","s">>
start_check == <<>>
login_check == <<"S","t","a","r","t"," ","Y","o","u","r"," ","T","e","s","t">>
upload_check == <<"R","O","L","L"," ","B","A","C","K">>

default_max_bytes == 10000000
touchstone_max_bytes == 10485760

login_url_default == <<"l","o","g","i","n">>
login_check_url_default == <<"l","o","g","i","n","_","c","h","e","c","k">>
initial_upload_url_default == <<"i","m","p","o","r","t">>
final_upload_url_default == <<"a","j","a","x","-","r","e","v","i","e","w","-","c","o","l","u","m","n","s">>

HTTPS == <<"h","t","t","p","s",":","/","/">>
HTTP == <<"h","t","t","p",":","/","/">>
FILE_ID == <<"?","f","i","l","e","_","i","d","=">>
UNAUTHORIZED == <<"u","n","a","u","t","h","o","r","i","z","e","d">>
SMS_DETAIL ==
    <<" ","(","s","m","s"," ","u","p","l","o","a","d"," ","m","i","g","h","t"," ",
      "n","o","t"," ","b","e"," ","p","e","r","m","i","t","t","e","d",")">>
UNKNOWN_REASON == <<"U","n","k","n","o","w","n"," ","r","e","a","s","o","n",".">>
EMAIL == <<"e","m","a","i","l">>
SMS == <<"s","m","s">>
TSV == <<"t","s","v">>
POST == <<"p","o","s","t">>
GET == <<"g","e","t">>
TouchstoneSuffixes ==
    { <<".","x","l","s">>, <<".","x","l","s","x">>, <<".","c","s","v">>, <<".","t","x","t">> }

\* sys.getsizeof on CPython 3 (64 bit): object header plus content for bytes
\* and ASCII str; for a file object its own size, whatever the file holds
sizeof_bytes_header == 33
sizeof_str_header == 49
sizeof_BufferedReader == 4264
sizeof_TextIOWrapper == 208

(* ------------------------------------------------------------------ *)
(* Bounds                                                              *)
(* ------------------------------------------------------------------ *)

\* method calls made on one instance
MaxOps == 2

(* ------------------------------------------------------------------ *)
(* Inputs: constructor arguments, call arguments, server responses     *)
(* ------------------------------------------------------------------ *)

Classes == {"TestText", "TouchstoneTests"}

\* "with": `with Cls(user, pass) as ts: ...`; "free": methods called directly
Modes == {"with", "free"}

Usernames == { <<>>, <<"u">> }
Passwords == { <<>>, <<"p">> }

HOST == <<"t",".","i","o">>

\* the uri argument of TouchstoneTests
Uris == { HTTPS \o HOST, HTTPS \o HOST \o <<"/">> }

NetErr == [exc |-> TRUE, ok |-> FALSE, url |-> <<>>, text |-> <<>>, soup |-> <<>>]

Response(ok, u, text, soup) ==
    [exc |-> FALSE, ok |-> ok, url |-> u, text |-> text, soup |-> soup]

\* an <input> element of a page
Input(name, value) == [tag |-> "input", name |-> name, value |-> value]

\* login pages: with the token field, without it, and the request failing
StartResponses ==
    { Response(TRUE, url \o start_uri, <<"L">>, << Input("csrf_token", <<"T">>) >>),
      Response(TRUE, url \o start_uri, <<"L">>, << Input("email", <<>>) >>),
      NetErr }

LoginResponses ==
    { Response(TRUE, url, login_check, <<>>),
      Response(TRUE, url \o login_uri, <<"S","t","a","r","t">>, <<>>),
      NetErr }

TokenPages ==
    { Response(TRUE, <<>>, <<>>, << Input("_csrf_token", <<"T">>) >>),
      Response(TRUE, <<>>, <<>>, <<>>),
      NetErr }

\* where the login POST of TouchstoneTests ends up after redirects
LoginCheckResponses ==
    { Response(ok, u, <<>>, <<>>) :
        ok \in BOOLEAN,
        u \in { HTTPS \o HOST \o <<"/">>,
                HTTP \o HOST,
                HTTPS \o HOST \o <<"/">> \o login_url_default,
                HTTPS \o <<"x",".","i","o","/">> } }
    \cup {NetErr}

Methods ==
    { <<"g","e","t">>, <<"G","E","T">>, <<"P","o","s","t">>, <<"P","U","T">> }

RequestUrls == { <<"x">>, HTTPS \o HOST \o <<"/","x">> }

PlainResponses == { Response(TRUE, <<>>, <<>>, <<>>), NetErr }

(* ------------------------------------------------------------------ *)
(* State                                                               *)
(* ------------------------------------------------------------------ *)

VARIABLES
    cls,          \* the wrapper class of the instance
    mode,         \* how the instance is driven
    username,     \* self.username
    password,     \* self.password
    uri,          \* self.uri (TouchstoneTests), the class attribute url (TestText)
    csrf_token,   \* self.csrf_token (TouchstoneTests)
    sessions,     \* every requests.Session created: how often close() was called on it
    selfSession,  \* self.session / self._session: an index into sessions, 0 for None
    loggedIn,     \* __enter__ has returned on this instance
    pc,           \* position of the driver
    ops,          \* method calls made so far
    last,         \* the last call: its arguments, the requests it sent, its outcome
    phase,        \* upload_data: phase of the upload in progress
    ud            \* upload_data: its local variables while it runs

vars ==
    <<cls, mode, username, password, uri, csrf_token, sessions, selfSession,
      loggedIn, pc, ops, last, phase, ud>>

config == <<cls, mode, username, password, uri>>

\* a request handed to the HTTP library
Req(via, method, u, place, payload, files) ==
    [via |-> via, method |-> method, url |-> u, place |-> place,
     payload |-> payload, files |-> files]

Result(op, outcome, error, sent, args, resp, value) ==
    [op |-> op, outcome |-> outcome, error |-> error, sent |-> sent,
     args |-> args, resp |-> resp, value |-> value,
     file |-> [kind |-> "", chars |-> <<>>, n |-> 0, exists |-> FALSE],
     max_bytes |-> 0, handle |-> "none"]

NoCall == Result("none", "none", "", <<>>, <<>>, <<>>, <<>>)

Idle == [step |-> "idle"]

Init ==
    /\ cls \in Classes
    /\ mode \in Modes
    /\ username \in Usernames
    /\ password \in Passwords
    /\ uri \in (IF cls = "TestText" THEN {url} ELSE Uris)
    /\ csrf_token = <<>>
    /\ sessions = <<>>
    /\ selfSession = 0
    /\ loggedIn = FALSE
    /\ pc = "start"
    /\ ops = 0
    /\ last = NoCall
    /\ phase = "NotUploaded"
    /\ ud = Idle

(* ------------------------------------------------------------------ *)
(* The driver                                                          *)
(* ------------------------------------------------------------------ *)

\* a method may be called: directly, or from the body of the with block
CanCall ==
    /\ ud.step = "idle"
    /\ ops < MaxOps
    /\ \/ mode = "free" /\ pc = "free"
       \/ mode = "with" /\ pc = "body"

\* the with statement calls __enter__ once; a direct caller whenever it likes
CanEnter ==
    /\ ud.step = "idle"
    /\ \/ mode = "free" /\ pc = "free" /\ ops < MaxOps
       \/ mode = "with" /\ pc = "constructed"

\* the with statement calls __exit__ when the body ends or raises
CanExit ==
    /\ ud.step = "idle"
    /\ \/ mode = "free" /\ pc = "free" /\ ops < MaxOps
       \/ mode = "with" /\ pc \in {"body", "unwinding"}

\* where a call made from the body leaves the driver
AfterCall(outcome) ==
    IF mode = "free" THEN "free"
    ELSE IF outcome = "raise" THEN "unwinding" ELSE "body"

\* an exception from __enter__ leaves the with statement without __exit__
AfterEnter(outcome) ==
    IF mode = "free" THEN "free"
    ELSE IF outcome = "raise" THEN "raised" ELSE "body"

\* __exit__ returns None: an exception of the body propagates
AfterExit(outcome) ==
    IF mode = "free" THEN "free"
    ELSE IF pc = "body" /\ outcome = "return" THEN "exited" ELSE "raised"

(* ------------------------------------------------------------------ *)
(* Shared helpers                                                      *)
(* ------------------------------------------------------------------ *)

\* soup.find_all('input', {'name': name}); soup.find is its first element
FindInputs(soup, name) ==
    LET Hit(e) == e.tag = "input" /\ e.name = name IN SelectSeq(soup, Hit)

_successful(response, check) == Contains(response.text, check)

\* (soup.find(...) or {}).get('value')
get_csrf_token(response) ==
    LET token_soup == FindInputs(response.soup, "csrf_token") IN
    IF token_soup = <<>> THEN None ELSE token_soup[1].value

\* check_valid_redirect without the strip('/')
check_valid_redirect_unstripped(response_url) ==
    Remove(Remove(response_url, HTTP), HTTPS) = Remove(Remove(uri, HTTP), HTTPS)

check_valid_redirect(response_url) ==
    LET mod_response_url == Strip(Remove(Remove(response_url, HTTP), HTTPS), "/")
        mod_url == Strip(Remove(Remove(uri, HTTP), HTTPS), "/")
    IN  mod_response_url = mod_url

(* ------------------------------------------------------------------ *)
(* TestText: construction, session block, request                      *)
(* ------------------------------------------------------------------ *)

TestText_init ==
    /\ cls = "TestText"
    /\ pc = "start"
    /\ sessions' = Append(sessions, 0)
    /\ selfSession' = Len(sessions) + 1
    /\ pc' = IF mode = "with" THEN "constructed" ELSE "free"
    /\ last' = Result("__init__", "return", "", <<>>, <<>>, <<>>, <<>>)
    /\ UNCHANGED <<config, csrf_token, loggedIn, ops, phase, ud>>

\* the outcome of TestText.__enter__ for the two responses the server gives
TestText_login(start_response, login_response) ==
    LET get == Req(selfSession, <<"G","E","T">>, url \o start_uri, "none", None, "none")
        post == Req(selfSession, <<"P","O","S","T">>, url \o login_uri, "data",
                    [submit |-> "Login", email |-> username, password |-> password,
                     csrf_token |-> get_csrf_token(start_response)], "none")
        R(outcome, error, sent) ==
            Result("__enter__", outcome, error, sent, <<>>, <<>>, <<>>)
    IN  IF username = <<>> /\ password # <<>>
        THEN R("raise", "ValueError: missing user/pass", <<>>)
        ELSE IF start_response.exc
        THEN R("raise", "ConnectionError", <<get>>)
        ELSE IF login_response.exc
        THEN R("raise", "ConnectionError", <<get, post>>)
        ELSE IF ~_successful(start_response, start_check)
        THEN R("raise", "ValueError: session init", <<get, post>>)
        ELSE IF ~_successful(login_response, login_check)
        THEN R("raise", "ValueError: login", <<get, post>>)
        ELSE R("return", "", <<get, post>>)

TestText_enter ==
    /\ cls = "TestText"
    /\ CanEnter
    /\ \E start_response \in StartResponses, login_response \in LoginResponses :
         LET res == TestText_login(start_response, login_response) IN
         /\ last' = res
         /\ loggedIn' = (loggedIn \/ res.outcome = "return")
         /\ pc' = AfterEnter(res.outcome)
    /\ ops' = IF mode = "free" THEN ops + 1 ELSE ops
    /\ UNCHANGED <<config, csrf_token, sessions, selfSession, phase, ud>>

TestText_exit ==
    /\ cls = "TestText"
    /\ CanExit
    /\ sessions' = [sessions EXCEPT ![selfSession] = @ + 1]
    /\ last' = Result("__exit__", "return", "", <<>>, <<>>, <<>>, <<>>)
    /\ pc' = AfterExit("return")
    /\ ops' = IF mode = "free" THEN ops + 1 ELSE ops
    /\ UNCHANGED <<config, csrf_token, selfSession, loggedIn, phase, ud>>

\* request(*args, **kwargs): whatever the caller gives goes to the session;
\* the caller passes params= with a GET and data= with anything else
TestText_request ==
    /\ cls = "TestText"
    /\ CanCall
    /\ \E method \in Methods, u \in RequestUrls, response \in PlainResponses :
         LET place == IF Lower(method) = GET THEN "params" ELSE "data"
             sent == <<Req(selfSession, Upper(method), u, place, <<"q">>, "none")>>
             args == [method |-> method, url |-> u]
             res == IF response.exc
                    THEN Result("request", "raise", "ConnectionError", sent, args, <<>>, <<>>)
                    ELSE Result("request", "return", "", sent, args, <<>>, <<>>)
         IN  /\ last' = res
             /\ pc' = AfterCall(res.outcome)
    /\ ops' = ops + 1
    /\ UNCHANGED <<config, csrf_token, sessions, selfSession, loggedIn, phase, ud>>

(* ------------------------------------------------------------------ *)
(* TouchstoneTests: construction, session block, request               *)
(* ------------------------------------------------------------------ *)

login_url == Join(<<"/">>, uri, login_url_default)
login_check_url == Join(<<"/">>, uri, login_check_url_default)

\* __init__ ends in _get_session_tokens: a GET outside any session, then
\* soup.find(...).get('value'), which raises on a page without the field
TouchstoneTests_init ==
    /\ cls = "TouchstoneTests"
    /\ pc = "start"
    /\ \E response \in TokenPages :
         LET sent == <<Req(0, <<"G","E","T">>, login_url, "none", None, "none")>>
             found == FindInputs(response.soup, "_csrf_token")
             R(outcome, error) ==
                 Result("__init__", outcome, error, sent, <<>>, <<>>, <<>>)
         IN  IF response.exc
             THEN /\ last' = R("raise", "ConnectionError")
                  /\ pc' = "raised"
                  /\ UNCHANGED csrf_token
             ELSE IF found = <<>>
             THEN /\ last' = R("raise", "AttributeError")
                  /\ pc' = "raised"
                  /\ UNCHANGED csrf_token
             ELSE /\ last' = R("return", "")
                  /\ pc' = IF mode = "with" THEN "constructed" ELSE "free"
                  /\ csrf_token' = found[1].value
    /\ UNCHANGED <<config, sessions, selfSession, loggedIn, ops, phase, ud>>

\* the outcome of TouchstoneTests.__enter__ for the server's answer
TouchstoneTests_login(session, login_response) ==
    LET post == Req(session, <<"P","O","S","T">>, login_check_url, "data",
                    [_csrf_token |-> csrf_token, _username |-> username,
                     _password |-> password, _submit |-> "Log in"], "none")
        R(outcome, error) ==
            Result("__enter__", outcome, error, <<post>>, <<>>, login_response, <<>>)
    IN  IF login_response.exc
        THEN R("raise", "ConnectionError")
        ELSE IF ~login_response.ok
        THEN R("raise", "AssertionError: Non-2XX Response.")
        ELSE IF ~check_valid_redirect(login_response.url)
        THEN R("raise", "AssertionError: Incorrect credentials.")
        ELSE R("return", "")

TouchstoneTests_enter ==
    /\ cls = "TouchstoneTests"
    /\ CanEnter
    /\ \E login_response \in LoginCheckResponses :
         LET session == Len(sessions) + 1
             res == TouchstoneTests_login(session, login_response)
         IN  /\ sessions' = Append(sessions, 0)
             /\ last' = res
             /\ selfSession' = IF res.outcome = "return" THEN session ELSE selfSession
             /\ loggedIn' = (loggedIn \/ res.outcome = "return")
             /\ pc' = AfterEnter(res.outcome)
    /\ ops' = IF mode = "free" THEN ops + 1 ELSE ops
    /\ UNCHANGED <<config, csrf_token, phase, ud>>

\* self._session.close(): an AttributeError while _session is None
TouchstoneTests_exit ==
    /\ cls = "TouchstoneTests"
    /\ CanExit
    /\ LET outcome == IF selfSession = 0 THEN "raise" ELSE "return" IN
         /\ sessions' = IF selfSession = 0 THEN sessions
                        ELSE [sessions EXCEPT ![selfSession] = @ + 1]
         /\ last' = Result("__exit__", outcome,
                           IF selfSession = 0 THEN "AttributeError" ELSE "",
                           <<>>, <<>>, <<>>, <<>>)
         /\ pc' = AfterExit(outcome)
    /\ ops' = IF mode = "free" THEN ops + 1 ELSE ops
    /\ UNCHANGED <<config, csrf_token, selfSession, loggedIn, phase, ud>>

\* request() without the else branch that refuses other methods
PrepareRequest_any_method(u, method, payload, files) ==
    LET full == IF StartsWith(u, HTTPS) THEN u ELSE Join(<<"/">>, uri, u) IN
    IF selfSession = 0
    THEN [error |-> "AttributeError", sent |-> <<>>]
    ELSE [error |-> "",
          sent |-> <<Req(selfSession, Upper(method), full,
                         IF Lower(method) = GET THEN "params" ELSE "data",
                         payload, files)>>]

\* TouchstoneTests.request up to the call of the session: the request to
\* send, or the exception raised instead
PrepareRequest(u, method, payload, files) ==
    LET full == IF StartsWith(u, HTTPS) THEN u ELSE Join(<<"/">>, uri, u) IN
    IF Lower(method) \notin {POST, GET}
    THEN [error |-> "HTTPError: POST or GET requests only.", sent |-> <<>>]
    ELSE IF selfSession = 0
    THEN [error |-> "AttributeError", sent |-> <<>>]
    ELSE [error |-> "",
          sent |-> <<Req(selfSession, Upper(method), full,
                         IF Lower(method) = POST THEN "data" ELSE "params",
                         payload, files)>>]

TouchstoneTests_request ==
    /\ cls = "TouchstoneTests"
    /\ CanCall
    /\ \E method \in Methods, u \in RequestUrls, response \in PlainResponses :
         LET prep == PrepareRequest(u, method, <<"q">>, "none")
             args == [method |-> method, url |-> u]
             res == IF prep.error # ""
                    THEN Result("request", "raise", prep.error, <<>>, args, <<>>, <<>>)
                    ELSE IF response.exc
                    THEN Result("request", "raise", "ConnectionError", prep.sent, args, <<>>, <<>>)
                    ELSE Result("request", "return", "", prep.sent, args, <<>>, <<>>)
         IN  /\ last' = res
             /\ pc' = AfterCall(res.outcome)
    /\ ops' = ops + 1
    /\ UNCHANGED <<config, csrf_token, sessions, selfSession, loggedIn, phase, ud>>

(* ------------------------------------------------------------------ *)
(* TestText.upload                                                     *)
(* ------------------------------------------------------------------ *)

\* the file_data argument: what kind of object, the characters of a str,
\* and how many bytes of content it stands for (for a path or a handle,
\* the bytes of the file on disk; exists: whether open() finds the file)
FileData(kind, chars, n, exists) ==
    [kind |-> kind, chars |-> chars, n |-> n, exists |-> exists]

NoFile == FileData("", <<>>, 0, FALSE)

PathString == <<"a",".","t","s","v">>

\* contents around the limit, of every kind of argument
FileInputs(max_bytes) ==
    { FileData("bytes", <<>>, n, TRUE) :
        n \in {0, max_bytes - sizeof_bytes_header,
               max_bytes - sizeof_bytes_header + 1, max_bytes + 1} }
    \cup { FileData(k, <<>>, n, TRUE) :
        k \in {"TextIOWrapper", "BufferedReader", "BytesIO"}, n \in {0, max_bytes + 1} }
    \cup { FileData("str", PathString, n, TRUE) : n \in {0, max_bytes + 1} }
    \cup { FileData("str", PathString, 0, FALSE),
           FileData("str", <<"a",".","T","S","V">>, 0, TRUE),
           FileData("str", <<".","t","s","v">>, 4, TRUE),
           FileData("str", <<"h","i">>, 2, TRUE),
           FileData("int", <<>>, 0, TRUE) }

\* the default, and a limit below the size of a file object
MaxBytesChoices == {default_max_bytes, 100}

ContentTypes == { EMAIL, SMS, <<"S","m","s">>, <<"f","a","x">> }

\* nodes of a response body
Text(chars) == [tag |-> "text", role |-> "", s |-> chars]
Div(role, chars) == [tag |-> "div", role |-> role, s |-> chars]

\* response.text of a node: markup is one opaque character per tag
Render(node) ==
    IF node.tag = "text" THEN node.s
    ELSE <<"<" \o node.tag \o " role=" \o node.role \o ">">> \o node.s \o <<"</" \o node.tag \o ">">>

RECURSIVE RenderAll(_)
RenderAll(nodes) ==
    IF nodes = <<>> THEN <<>> ELSE Render(Head(nodes)) \o RenderAll(Tail(nodes))

Page(nodes) == Response(TRUE, <<>>, RenderAll(nodes), nodes)

UploadResponses ==
    { Page(<< Text(upload_check) >>),
      Page(<< Text(<<"x">> \o upload_check \o <<"y">>) >>),
      Page(<< Text(<<"R","O","L","L","B","A","C","K">>) >>),
      Page(<< Text(UNAUTHORIZED) >>),
      Page(<< Text(UNAUTHORIZED \o <<" ">>) >>),
      Page(<< Div("alert", <<" ","b","a","d"," ">>) >>),
      Page(<< Div("note", <<"n">>), Div("alert", <<"e","1">>), Div("alert", <<"e","2">>) >>),
      Page(<< Div("alert", upload_check) >>),
      Page(<< Div("alert", <<>>) >>),
      Page(<<>>),
      NetErr }

\* sys.getsizeof of the object the size check is given
getsizeof(kind, n) ==
    CASE kind = "bytes" -> sizeof_bytes_header + n
      [] kind = "str" -> sizeof_str_header + n
      [] kind = "BufferedReader" -> sizeof_BufferedReader
      [] kind = "TextIOWrapper" -> sizeof_TextIOWrapper

\* TestText.upload.get_upload_uri: the uri, or None where it raises
get_upload_uri(content_type) ==
    IF Lower(content_type) = EMAIL THEN email_upload_uri
    ELSE IF Lower(content_type) = SMS THEN sms_upload_uri
    ELSE None

\* TestText.upload.parse_file_type before the size check: the object to post
\* (obj: a handle kind, or the kind of the tuple's second element), or the
\* exception raised
parse_file_type(f) ==
    IF f.kind \in {"TextIOWrapper", "BufferedReader"}
    THEN [error |-> "", obj |-> f.kind, handle |-> TRUE]
    ELSE IF f.kind = "str"
    THEN IF Lower(AfterLast(f.chars, <<".">>)) = TSV /\ Len(f.chars) > 4
         THEN IF f.exists
              THEN [error |-> "", obj |-> "BufferedReader", handle |-> TRUE]
              ELSE [error |-> "FileNotFoundError", obj |-> "", handle |-> FALSE]
         ELSE [error |-> "", obj |-> "str", handle |-> FALSE]
    ELSE IF f.kind \in {"bytes", "BytesIO"}
    THEN [error |-> "", obj |-> "bytes", handle |-> FALSE]
    ELSE [error |-> "ValueError: file argument", obj |-> "", handle |-> FALSE]

\* TestText.upload.parse_file_type.check_file_size
too_big(obj, n, max_bytes) == getsizeof(obj, n) > max_bytes

\* _get_failure_reason comparing content_type without lower()
_get_failure_reason_cased(response, content_type) ==
    IF response.text = UNAUTHORIZED
    THEN UNAUTHORIZED \o (IF content_type = SMS THEN SMS_DETAIL ELSE <<>>)
    ELSE LET Alert(e) == e.tag = "div" /\ e.role = "alert"
             result == SelectSeq(response.soup, Alert)
         IN  IF result # <<>> THEN Strip(result[1].s, " ") ELSE UNKNOWN_REASON

\* soup.find('div', {'role': 'alert'}) and get_text(strip=True)
_get_failure_reason(response, content_type) ==
    IF response.text = UNAUTHORIZED
    THEN UNAUTHORIZED \o (IF Lower(content_type) = SMS THEN SMS_DETAIL ELSE <<>>)
    ELSE LET Alert(e) == e.tag = "div" /\ e.role = "alert"
             result == SelectSeq(response.soup, Alert)
         IN  IF result # <<>> THEN Strip(result[1].s, " ") ELSE UNKNOWN_REASON

\* a call of upload / upload_data in progress or over: the file it was given,
\* the limit, and the state of the handle the normalized input is
Upload(op, outcome, error, sent, args, resp, value, file, max_bytes, handle) ==
    [Result(op, outcome, error, sent, args, resp, value)
        EXCEPT !.file = file, !.max_bytes = max_bytes, !.handle = handle]

\* TestText.upload up to session.post: the request is out ("running"), or
\* an exception was raised before it
upload_send(file_data, max_bytes, content_type) ==
    LET args == [content_type |-> content_type]
        upload_uri == get_upload_uri(content_type)
        parsed == parse_file_type(file_data)
        post == Req(selfSession, <<"P","O","S","T">>, url \o upload_uri, "none", None, "file")
        R(outcome, error, sent, handle) ==
            Upload("upload", outcome, error, sent, args, <<>>, <<>>,
                   file_data, max_bytes, handle)
    IN  IF upload_uri = None
        THEN R("raise", "ValueError: content_type", <<>>, "none")
        ELSE IF parsed.error # ""
        THEN R("raise", parsed.error, <<>>, "none")
        ELSE IF too_big(parsed.obj, file_data.n, max_bytes)
        THEN R("raise", "ValueError: File too large", <<>>,
               IF parsed.handle THEN "open" ELSE "none")
        ELSE R("running", "", <<post>>, IF parsed.handle THEN "open" ELSE "none")

\* TestText.upload from the answer of session.post on
upload_finish(call, upload_response) ==
    LET content_type == call.args.content_type
        closed == IF call.handle = "open" THEN "closed" ELSE call.handle
        R(outcome, error, value, handle) ==
            Upload("upload", outcome, error, call.sent, call.args, upload_response,
                   value, NoFile, 0, handle)
    IN  IF upload_response.exc
        THEN R("raise", "ConnectionError", <<>>, call.handle)
        ELSE IF ~_successful(upload_response, upload_check)
        THEN R("raise", "ValueError: Unsucccessful Upload",
               _get_failure_reason(upload_response, content_type), closed)
        ELSE R("return", "", [failures |-> 0, response |-> upload_response], closed)

TestText_upload ==
    /\ cls = "TestText"
    /\ CanCall
    /\ \E max_bytes \in MaxBytesChoices, content_type \in ContentTypes :
         \E file_data \in FileInputs(max_bytes) :
           LET res == upload_send(file_data, max_bytes, content_type) IN
           /\ last' = res
           /\ ud' = IF res.outcome = "running" THEN [step |-> "post"] ELSE Idle
           /\ pc' = IF res.outcome = "running" THEN pc ELSE AfterCall(res.outcome)
    /\ ops' = ops + 1
    /\ UNCHANGED <<config, csrf_token, sessions, selfSession, loggedIn, phase>>

\* session.post returns or raises, and upload runs to its end
TestText_upload_response ==
    /\ cls = "TestText"
    /\ ud.step = "post"
    /\ \E upload_response \in UploadResponses :
         LET res == upload_finish(last, upload_response) IN
         /\ last' = res
         /\ pc' = AfterCall(res.outcome)
    /\ ud' = Idle
    /\ UNCHANGED <<config, csrf_token, sessions, selfSession, loggedIn, ops, phase>>

(* ------------------------------------------------------------------ *)
(* TouchstoneTests.upload_data                                         *)
(* ------------------------------------------------------------------ *)

Filenames ==
    { <<"a",".","c","s","v">>, <<"A",".","X","L","S","X">>, <<"a",".","t","s","v">> }

\* the data argument: bytes around the limit, a path, None, something else
DataInputs ==
    { FileData("bytes", <<>>, n, TRUE) :
        n \in {0, touchstone_max_bytes - sizeof_bytes_header,
               touchstone_max_bytes - sizeof_bytes_header + 1, touchstone_max_bytes + 1} }
    \cup { FileData(k, <<"d",".","c","s","v">>, n, TRUE) :
        k \in {"str", "NoneType"}, n \in {0, touchstone_max_bytes + 1} }
    \cup { FileData("str", <<"d",".","c","s","v">>, 0, FALSE),
           FileData("int", <<>>, 0, TRUE) }

DateFormats == { <<"Y","-","m","-","d">>, <<"d","-","m","-","Y">> }

\* elements of the page the initial upload answers with
Option(selected, value) == [selected |-> selected, value |-> value]
Th(class, number, options) == [class |-> class, number |-> number, options |-> options]
Element(class, cells) == [class |-> class, cells |-> cells]

SELECTED == <<"s","e","l","e","c","t","e","d">>

\* cell 0 with "5" selected, cell 1 with nothing selected
ExamplePage ==
    << Element("review_data",
          << Th("import_field", <<"0">>, << Option(<<>>, <<"1">>), Option(SELECTED, <<"5">>) >>),
             Th("import_field", <<"1">>, << Option(<<>>, <<"2">>) >>) >>) >>

ReviewPages ==
    { ExamplePage,
      << Element("other", << Th("import_field", <<"0">>, << Option(SELECTED, <<"5">>) >>) >>) >>,
      << Element("other", <<>>),
         Element("review_data", << Th("import_field", <<"0">>, << Option(SELECTED, <<"3">>) >>) >>),
         Element("review_data", << Th("import_field", <<"0">>, << Option(SELECTED, <<"9">>) >>) >>) >>,
      << Element("review_data",
            << Th("other", <<"1">>, << Option(SELECTED, <<"4">>) >>),
               Th("import_field", <<"2">>, << Option(SELECTED, <<"7">>), Option(SELECTED, <<"8">>) >>) >>) >>,
      << Element("review_data",
            << Th("import_field", <<"0">>, << Option(SELECTED, <<"5">>) >>),
               Th("import_field", <<"0">>, <<>>) >>) >>,
      << Element("review_data", <<>>) >> }

IMPORT_URL == HTTPS \o HOST \o <<"/">> \o initial_upload_url_default

InitialResponses ==
    { Response(TRUE, u, <<>>, page) :
        u \in { IMPORT_URL \o FILE_ID \o <<"4","2">>,
                IMPORT_URL \o FILE_ID \o <<"4","2","&","x","=","1">> },
        page \in ReviewPages }
    \cup { Response(TRUE, IMPORT_URL, <<>>, page) : page \in ReviewPages }
    \cup { Response(FALSE, IMPORT_URL \o FILE_ID \o <<"4","2">>, <<>>, page) :
             page \in ReviewPages }
    \cup { NetErr }

FinalResponses ==
    { Response(TRUE, <<>>, <<>>, <<>>), Response(FALSE, <<>>, <<>>, <<>>), NetErr }

\* TouchstoneTests._file_to_bytes: the object to post (a handle kind or
\* bytes), or the exception raised; handle: a file was opened on the way
_file_to_bytes(data, filename) ==
    LET opened == IF data.exists
                  THEN [error |-> "", obj |-> "BufferedReader", handle |-> TRUE]
                  ELSE [error |-> "FileNotFoundError", obj |-> "", handle |-> FALSE]
        got == IF data.kind = "bytes"
               THEN [error |-> "", obj |-> "bytes", handle |-> FALSE]
               ELSE IF data.kind = "str" THEN opened
               ELSE IF data.kind = "NoneType" THEN opened
               ELSE [error |-> "TypeError", obj |-> "", handle |-> FALSE]
    IN  IF ~\E suffix \in TouchstoneSuffixes : EndsWith(Lower(filename), suffix)
        THEN [error |-> "AssertionError: Filetype", obj |-> "", handle |-> FALSE]
        ELSE IF got.error # "" THEN got
        ELSE IF ~(getsizeof(got.obj, data.n) <= touchstone_max_bytes)
        THEN [got EXCEPT !.error = "AssertionError: Max file size: 10MB"]
        ELSE got

KEY_fid == <<"f","i","d">>
KEY_dateFormat == <<"d","a","t","e","F","o","r","m","a","t">>

\* f'columns[{data_number}]'
ColumnKey(data_number) ==
    <<"c","o","l","u","m","n","s","[">> \o Format(data_number) \o <<"]">>

\* soup.find_all('', {'class': 'review_data'})
review_data(init_response) ==
    LET Hit(e) == e.class = "review_data" IN SelectSeq(init_response.soup, Hit)

\* data_soup.find_all('th', 'import_field')
import_fields(data_soup) ==
    LET Hit(e) == e.class = "import_field" IN SelectSeq(data_soup.cells, Hit)

\* the first option's value, selected or not
col_num_first_option(field) ==
    IF field.options # <<>> THEN field.options[1].value ELSE <<>>

\* field.find('option', {'selected': 'selected'}) and the value it gives
col_num(field) ==
    LET Hit(o) == o.selected = SELECTED
        selection == SelectSeq(field.options, Hit)
    IN  IF selection # <<>> THEN selection[1].value ELSE <<>>

\* the loop of _parse_table_structure over field_soup
RECURSIVE table_of(_, _)
table_of(table_data, field_soup) ==
    IF field_soup = <<>> THEN table_data
    ELSE table_of(Merge(table_data,
                        ColumnKey(Head(field_soup).number) :> col_num(Head(field_soup))),
                  Tail(field_soup))

\* upload_data._parse_table_structure, where review_data is found
_parse_table_structure(init_response) ==
    table_of(<<>>, import_fields(review_data(init_response)[1]))

\* the dict upload_data gives _final_upload
table_data(init_response, date_format) ==
    Merge((KEY_fid :> AfterLast(init_response.url, FILE_ID))
             @@ (KEY_dateFormat :> date_format),
          _parse_table_structure(init_response))

\* upload_data up to the initial POST: _file_to_bytes, then request()
upload_data_send(filename, data, date_format) ==
    LET args == [filename |-> filename, date_format |-> date_format]
        got == _file_to_bytes(data, filename)
        prep == PrepareRequest(initial_upload_url_default, <<"P","O","S","T">>, None, "file")
        handle == IF got.handle THEN "open" ELSE "none"
        R(outcome, error, sent) ==
            Upload("upload_data", outcome, error, sent, args, <<>>, <<>>,
                   data, touchstone_max_bytes, handle)
    IN  IF got.error # "" THEN R("raise", got.error, <<>>)
        ELSE IF prep.error # "" THEN R("raise", prep.error, <<>>)
        ELSE R("running", "", prep.sent)

TouchstoneTests_upload_data ==
    /\ cls = "TouchstoneTests"
    /\ CanCall
    /\ \E filename \in Filenames, data \in DataInputs, date_format \in DateFormats :
         LET res == upload_data_send(filename, data, date_format) IN
         /\ last' = res
         /\ ud' = IF res.outcome = "running" THEN [step |-> "initial"] ELSE Idle
         /\ pc' = IF res.outcome = "running" THEN pc ELSE AfterCall(res.outcome)
    /\ phase' = "NotUploaded"
    /\ ops' = ops + 1
    /\ UNCHANGED <<config, csrf_token, sessions, selfSession, loggedIn>>

\* how a step of upload_data leaves the call: over with an exception, or on
Raised(call, error, resp) ==
    [call EXCEPT !.outcome = "raise", !.error = error, !.resp = resp,
                 !.file = NoFile, !.max_bytes = 0]

\* the assertion without the file_id test
initial_upload_ok_status_only(response) == response.ok

\* the assertion of upload_data._initial_upload
initial_upload_ok(response) == response.ok /\ Contains(response.url, FILE_ID)

\* upload_data._initial_upload from the answer of the request on
TouchstoneTests_initial_upload ==
    /\ cls = "TouchstoneTests"
    /\ ud.step = "initial"
    /\ \E response \in InitialResponses :
         IF response.exc
         THEN /\ last' = Raised(last, "ConnectionError", response)
              /\ ud' = Idle
              /\ pc' = AfterCall("raise")
              /\ UNCHANGED phase
         ELSE IF ~initial_upload_ok(response)
         THEN /\ last' = Raised(last, "AssertionError: Invalid response", response)
              /\ ud' = Idle
              /\ pc' = AfterCall("raise")
              /\ UNCHANGED phase
         ELSE /\ last' = [last EXCEPT !.resp = response, !.file = NoFile, !.max_bytes = 0]
              /\ ud' = [step |-> "parse"]
              /\ phase' = "RawUploaded"
              /\ UNCHANGED pc
    /\ UNCHANGED <<config, csrf_token, sessions, selfSession, loggedIn, ops>>

\* table_data is built and _final_upload sends it
TouchstoneTests_parse_table_structure ==
    /\ cls = "TouchstoneTests"
    /\ ud.step = "parse"
    /\ IF review_data(last.resp) = <<>>
       THEN /\ last' = Raised(last, "IndexError", last.resp)
            /\ ud' = Idle
            /\ pc' = AfterCall("raise")
            /\ UNCHANGED phase
       ELSE LET data == table_data(last.resp, last.args.date_format)
                prep == PrepareRequest(final_upload_url_default, POST, data, "none")
            IN  /\ last' = [last EXCEPT !.sent = @ \o prep.sent]
                /\ ud' = [step |-> "final"]
                /\ phase' = "StructureNegotiated"
                /\ UNCHANGED pc
    /\ UNCHANGED <<config, csrf_token, sessions, selfSession, loggedIn, ops>>

\* upload_data._final_upload from the answer of the request on
TouchstoneTests_final_upload ==
    /\ cls = "TouchstoneTests"
    /\ ud.step = "final"
    /\ \E response \in FinalResponses :
         IF response.exc
         THEN /\ last' = [last EXCEPT !.outcome = "raise", !.error = "ConnectionError"]
              /\ pc' = AfterCall("raise")
              /\ UNCHANGED phase
         ELSE IF ~response.ok
         THEN /\ last' = [last EXCEPT !.outcome = "raise",
                                      !.error = "AssertionError: Non-2XX response"]
              /\ pc' = AfterCall("raise")
              /\ UNCHANGED phase
         ELSE /\ last' = [last EXCEPT !.outcome = "return", !.value = response]
              /\ pc' = AfterCall("return")
              /\ phase' = "Finalized"
    /\ ud' = Idle
    /\ UNCHANGED <<config, csrf_token, sessions, selfSession, loggedIn, ops>>

Next ==
    \/ TestText_init
    \/ TestText_enter
    \/ TestText_exit
    \/ TestText_request
    \/ TestText_upload
    \/ TestText_upload_response
    \/ TouchstoneTests_init
    \/ TouchstoneTests_enter
    \/ TouchstoneTests_exit
    \/ TouchstoneTests_request
    \/ TouchstoneTests_upload_data
    \/ TouchstoneTests_initial_upload
    \/ TouchstoneTests_parse_table_structure
    \/ TouchstoneTests_final_upload

Spec == Init /\ [][Next]_vars

(* ------------------------------------------------------------------ *)
(* Properties                                                          *)
(* ------------------------------------------------------------------ *)

Uploading == last.op \in {"upload", "upload_data"}
Over == last.outcome \in {"return", "raise"}

\* C1: when the with block has been left, on whatever path, every session
\* that was created has been closed exactly once.
C1_EverySessionClosedOnce ==
    (mode = "with" /\ pc \in {"exited", "raised"})
        => \A i \in 1..Len(sessions) : sessions[i] = 1

\* C2: with an empty username or an empty password no request is sent by
\* construction or login, and __enter__ raises.
C2_MissingCredentialsRejected ==
    ((username = <<>> \/ password = <<>>) /\ last.op \in {"__init__", "__enter__"})
        => /\ last.sent = <<>>
           /\ last.op = "__enter__" => last.outcome = "raise"

\* C3: an upload whose content is longer than max_bytes raises and sends no
\* request.
C3_OversizeNeverSent ==
    (Uploading /\ last.file.kind # "" /\ last.file.n > last.max_bytes)
        => last.sent = <<>> /\ last.outcome = "raise"

\* C4: an upload sends a request only on an instance whose login has
\* succeeded before.
C4_NoUploadBeforeLogin ==
    (Uploading /\ last.sent # <<>>) => loggedIn

\* C5: when upload / upload_data has returned or raised, the file handle its
\* input was normalized to is not open any more.
C5_HandleClosedAfterUpload ==
    (Uploading /\ Over) => last.handle # "open"

\* the scheme and the slashes around taken off a URL
Normalized(u) ==
    LET rest == IF StartsWith(u, HTTPS) THEN SubSeq(u, Len(HTTPS) + 1, Len(u))
                ELSE IF StartsWith(u, HTTP) THEN SubSeq(u, Len(HTTP) + 1, Len(u))
                ELSE u
    IN  Strip(rest, "/")

TouchstoneLoginAnswered ==
    cls = "TouchstoneTests" /\ last.op = "__enter__" /\ ~last.resp.exc

\* C6: a TouchstoneTests login returns exactly when the status is 2xx and the
\* final URL, normalized, equals the normalized base URL; otherwise __enter__
\* raises and records no session: _session is set only by a login that
\* returned, to the session of that login.
C6_LoginNeedsOkAndRedirect ==
    /\ TouchstoneLoginAnswered =>
         /\ last.outcome = "return"
              <=> (last.resp.ok /\ Normalized(last.resp.url) = Normalized(uri))
         /\ last.outcome = "raise" <=> last.outcome # "return"
         /\ last.outcome = "return" => selfSession = Len(sessions)
         /\ (last.outcome = "raise" /\ mode = "with") => selfSession = 0
    /\ (cls = "TouchstoneTests" /\ selfSession # 0) => loggedIn

\* a 2xx login that ended on the login page
C6_Witness ==
    /\ TouchstoneLoginAnswered
    /\ last.resp.ok
    /\ Normalized(last.resp.url) # Normalized(uri)
    /\ last.outcome = "raise"
    /\ selfSession = 0

UploadAnswered ==
    last.op = "upload" /\ Over /\ last.sent # <<>> /\ ~last.resp.exc

IsAlert(e) == e.tag = "div" /\ e.role = "alert"

\* C7: the outcome of TestText.upload is decided by the response body: with
\* the marker in it the call returns failures 0 and the response; without it
\* the call raises with "unauthorized" for the body "unauthorized" (plus the
\* sms note exactly for content_type sms in any case), else with the text of
\* the first alert element, else with "Unknown reason.".
C7_OutcomeFromBody ==
    UploadAnswered =>
      LET body == last.resp
          sms == Lower(last.args.content_type) = SMS
          alerts == {i \in 1..Len(body.soup) : IsAlert(body.soup[i])}
      IN  IF Contains(body.text, upload_check)
          THEN /\ last.outcome = "return"
               /\ last.value.failures = 0
               /\ last.value.response = body
          ELSE /\ last.outcome = "raise"
               /\ body.text = UNAUTHORIZED =>
                    /\ sms => last.value = UNAUTHORIZED \o SMS_DETAIL
                    /\ ~sms => last.value = UNAUTHORIZED
               /\ (body.text # UNAUTHORIZED /\ alerts = {}) => last.value = UNKNOWN_REASON
               /\ (body.text # UNAUTHORIZED /\ alerts # {}) =>
                    \E i \in alerts :
                       /\ \A j \in alerts : i <= j
                       /\ last.value = Strip(body.soup[i].s, " ")

\* an sms upload answered "unauthorized"
C7_Witness ==
    /\ UploadAnswered
    /\ last.resp.text = UNAUTHORIZED
    /\ last.args.content_type = <<"S","m","s">>
    /\ last.value = UNAUTHORIZED \o SMS_DETAIL

RequestCalled == last.op = "request" /\ Over

\* C8 as stated: request() of either wrapper rejects every method but GET and
\* POST without sending, and sends a GET's payload as query parameters, a
\* POST's as the form body.
C8_OnlyGetAndPost ==
    RequestCalled =>
      LET method == Lower(last.args.method) IN
      /\ method \notin {GET, POST} => (last.outcome = "raise" /\ last.sent = <<>>)
      /\ (method = GET /\ last.sent # <<>>) => last.sent[1].place = "params"
      /\ (method = POST /\ last.sent # <<>>) => last.sent[1].place = "data"

\* C8 amended: TouchstoneTests.request does so; TestText.request hands the
\* caller's method to the session, whatever it is, in one request.
C8_TouchstoneOnlyGetAndPost ==
    RequestCalled =>
      LET method == Lower(last.args.method) IN
      IF cls = "TouchstoneTests"
      THEN /\ method \notin {GET, POST} =>
                (last.outcome = "raise" /\ last.sent = <<>>)
           /\ last.sent # <<>> =>
                /\ Len(last.sent) = 1
                /\ last.sent[1].method = Upper(last.args.method)
                /\ method = GET => last.sent[1].place = "params"
                /\ method = POST => last.sent[1].place = "data"
      ELSE /\ Len(last.sent) = 1
           /\ Lower(last.sent[1].method) = method

\* a PUT refused by TouchstoneTests.request on a logged-in instance
C8_Witness ==
    /\ RequestCalled
    /\ cls = "TouchstoneTests"
    /\ selfSession # 0
    /\ last.args.method = <<"P","U","T">>
    /\ last.outcome = "raise"
    /\ last.sent = <<>>

PhaseRank(p) ==
    CASE p = "NotUploaded" -> 0
      [] p = "RawUploaded" -> 1
      [] p = "StructureNegotiated" -> 2
      [] p = "Finalized" -> 3

InitialEndpoint == Join(<<"/">>, uri, initial_upload_url_default)
FinalEndpoint == Join(<<"/">>, uri, final_upload_url_default)

\* the requests of one upload_data call and the phase it is in agree
C9_PhaseAndRequests ==
    last.op = "upload_data" =>
      /\ Len(last.sent) <= 2
      /\ Len(last.sent) >= 1 =>
            (last.sent[1].url = InitialEndpoint /\ last.sent[1].method = Upper(POST))
      /\ Len(last.sent) = 2 =>
            (last.sent[2].url = FinalEndpoint /\ last.sent[2].method = Upper(POST))
      /\ Len(last.sent) = 2 <=> phase \in {"StructureNegotiated", "Finalized"}
      /\ phase # "NotUploaded" =>
            /\ Len(last.sent) >= 1
            /\ last.resp.ok
            /\ Contains(last.resp.url, FILE_ID)
      /\ phase = "Finalized" <=> last.outcome = "return"

\* a phase changes by one step forward within a call, or back to NotUploaded
\* when the next call starts
C9_PhaseStep ==
    phase' # phase =>
      \/ ud.step # "idle" /\ PhaseRank(phase') = PhaseRank(phase) + 1
      \/ ud.step = "idle" /\ phase' = "NotUploaded"

\* C9: within one upload_data call the phases advance NotUploaded ->
\* RawUploaded -> StructureNegotiated -> Finalized one step at a time and
\* never back; the initial endpoint is POSTed at most once, the finalizing
\* endpoint at most once and only after an initial answer that was 2xx with
\* ?file_id= in its URL.
C9_LinearPhases == [][C9_PhaseStep /\ C9_PhaseAndRequests']_vars

\* a call that went through all phases
C9_Witness ==
    /\ last.op = "upload_data"
    /\ phase = "Finalized"
    /\ Len(last.sent) = 2

FinalSent == last.op = "upload_data" /\ Len(last.sent) = 2

====
